---- MODULE Spec2Model ----
(***************************************************************************)
(* primes-web: the low set of primes (src/primes-web.js, class primes_web, *)
(* first revision, lines 30-409), the 2-3-5 wheel BitArray it is built     *)
(* with, and the public predicates that read it.  isPrimeFast is the       *)
(* accelerated predicate of the revision in src/unnamed/part_000.          *)
(*                                                                         *)
(* JavaScript semantics the model keeps:                                   *)
(*  - an async function without await runs to its end inside the call that *)
(*    invokes it; an exception inside it rejects the returned promise and  *)
(*    the caller carries on;                                               *)
(*  - for (x in array) enumerates the array's keys ("0", "1", ...), which  *)
(*    are strings, never its elements;                                     *)
(*  - class bodies are strict code: assigning an undeclared identifier     *)
(*    throws a ReferenceError;                                             *)
(*  - array[-1] and array[length] are undefined; any ordering comparison   *)
(*    with undefined is false.                                             *)
(***************************************************************************)
EXTENDS Integers, Sequences, FiniteSets, TLC

\* ------------------------------------------------------------------ bounds

\* The constructor passes Number.MAX_SAFE_INTEGER to #generateLowSet.  The
\* model draws that argument as bound * bound + offset with bound in
\* 0..MaxBound and offset in 0..MaxOffset: the squares and the numbers just
\* above them, so that every sieve bound up to MaxBound is built.  The bound
\* 0 is the build that fails: new BitArray(0) throws, the promise of
\* #generateLowSet is rejected and ready stays false.
MaxBound == 175

MaxOffset == 1

\* Arguments of the public predicates are drawn from -MaxNegative..MaxNumber.
MaxNumber == 100

MaxNegative == 2

\* Endpoints of the range operations are drawn from 0..MaxEndpoint.
MaxEndpoint == 3

\* A BitArray used on its own has a size in 0..MaxSize (0 is refused), is
\* called with numbers from -MaxNegative to size + MaxBeyond, and set is
\* called with at most MaxSets different numbers.
MaxSize == 31

MaxBeyond == 8

MaxSets == 2

Numbers == (0 - MaxNegative)..MaxNumber

Endpoints == 0..MaxEndpoint

Ranges ==
    {bound * bound + offset : bound \in 0..MaxBound, offset \in 0..MaxOffset}

\* ------------------------------------------------------------------- state

VARIABLES
    max_range,      \* the argument of #generateLowSet (MAX_RANGE)
    low_set,        \* #low_set
    low_set_last,   \* #low_set_last
    low_set_ready,  \* #low_set_ready
    range,          \* #generateLowSet: range after line 51
    range_sqrt,     \* #generateLowSet: range_sqrt
    candidate,      \* #generateLowSet: candidate
    oddMultiple,    \* #generateLowSet: oddMultiple
    sieveField,     \* #generateLowSet: sieveField, a BitArray
    pc,             \* position of the control inside constructor / #generateLowSet
    builds,         \* number of times #generateLowSet was entered
    result,         \* the last public call and its outcome
    bits,           \* a BitArray used on its own, through set and get
    setLog          \* the numbers set was called with on bits

vars == <<max_range, low_set, low_set_last, low_set_ready, range, range_sqrt,
          candidate, oddMultiple, sieveField, pc, builds, result, bits, setLog>>

bitVars == <<bits, setLog>>

programVars ==
    <<max_range, low_set, low_set_last, low_set_ready, range, range_sqrt,
      candidate, oddMultiple, sieveField, pc, builds, result>>

buildVars == <<range, range_sqrt, candidate, oddMultiple, sieveField>>

cacheVars == <<low_set, low_set_last, low_set_ready>>

\* ----------------------------------------------------------- JS arithmetic

\* The value undefined, where a number is expected (low_set[-1]).
Undefined == -1

\* Math.ceil(Math.sqrt(x)): the square root rounded the other way.
CeilSqrt(x) == CHOOSE r \in 0..x : r * r >= x /\ (r = 0 \/ (r - 1) * (r - 1) < x)

\* Math.floor(Math.sqrt(x)) for x >= 0.
FloorSqrt(x) == CHOOSE r \in 0..x : r * r <= x /\ (r + 1) * (r + 1) > x

\* JavaScript's %: the sign of the result is the sign of the dividend.
JsMod(a, b) == IF a >= 0 THEN a % b ELSE 0 - ((0 - a) % b)

\* a <= b where b may be undefined (the comparison is then false).
JsLessEq(a, b) == b # Undefined /\ a <= b

\* byte & mask for a mask of a single bit.
BitAnd(byte, mask) == ((byte \div mask) % 2) * mask

\* byte + mask in a Uint8Array element: += where |= is meant.
BitOrAsPlus(byte, mask) == (byte + mask) % 256

\* byte | mask for a mask of a single bit.
BitOr(byte, mask) == IF BitAnd(byte, mask) = 0 THEN byte + mask ELSE byte

\* ---------------------------------------------------------------- BitArray

\* The mask table with the bit of residue 7 repeated at residue 11.
MaskTableShared ==
    <<0, 1, 0, 0, 0, 0, 0, 2, 0, 0, 0, 2, 0, 8, 0, 0, 0, 16, 0, 32,
      0, 0, 0, 64, 0, 0, 0, 0, 0, 128>>

\* BitArray.#mask: residue mod 30 -> bit (0: not represented by the wheel).
MaskTable ==
    <<0, 1, 0, 0, 0, 0, 0, 2, 0, 0, 0, 4, 0, 8, 0, 0, 0, 16, 0, 32,
      0, 0, 0, 64, 0, 0, 0, 0, 0, 128>>

\* this.#mask[number % 30]; undefined (falsy, 0) for a negative index.
MaskOf(number) ==
    LET r == JsMod(number, 30) IN IF r < 0 THEN 0 ELSE MaskTable[r + 1]

\* The BitArray constructor throws unless size is a safe integer >= 1.
BitArrayThrows(size) == size < 1

\* A BitArray of ceil(size / 30) + 1 zero bytes.
BitArrayNewCeil(size) ==
    [size |-> size, data |-> [i \in 1..(((size + 29) \div 30) + 1) |-> 0]]

\* new BitArray(size): floor(size / 30) + 1 zero bytes; data[i + 1] is byte i.
BitArrayNew(size) ==
    [size |-> size, data |-> [i \in 1..((size \div 30) + 1) |-> 0]]

\* No BitArray yet.
NoBitArray == [size |-> 0, data |-> <<>>]

\* Is index a byte of the Uint8Array?
InData(field, index) == index >= 0 /\ index < Len(field.data)

\* BitArray.set whose check lets a number above size through.
BitArraySetUnbounded(field, number, skip_checks) ==
    IF ~skip_checks /\ (JsMod(number, 2) = 0 \/ number < 0)
    THEN field
    ELSE LET mask  == MaskOf(number)
             index == number \div 30
         IN IF mask # 0 /\ InData(field, index)
            THEN [field EXCEPT !.data[index + 1] = BitOr(@, mask)]
            ELSE field

\* BitArray.set(number, skip_checks); a write outside a Uint8Array is ignored.
BitArraySet(field, number, skip_checks) ==
    IF ~skip_checks /\ (JsMod(number, 2) = 0 \/ number < 0 \/ number > field.size)
    THEN field
    ELSE LET mask  == MaskOf(number)
             index == number \div 30
         IN IF mask # 0 /\ InData(field, index)
            THEN [field EXCEPT !.data[index + 1] = BitOr(@, mask)]
            ELSE field

\* BitArray.get whose check refuses number >= size where > is meant.
BitArrayGetStrict(field, number, skip_checks) ==
    IF ~skip_checks /\ (JsMod(number, 2) = 0 \/ number < 7 \/ number >= field.size)
    THEN 1
    ELSE LET mask  == MaskOf(number)
             index == number \div 30
         IN IF mask # 0
            THEN IF InData(field, index) THEN BitAnd(field.data[index + 1], mask) ELSE 0
            ELSE 1

\* BitArray.get(number, skip_checks); a read outside a Uint8Array is undefined,
\* and undefined & mask is 0.
BitArrayGet(field, number, skip_checks) ==
    IF ~skip_checks /\ (JsMod(number, 2) = 0 \/ number < 7 \/ number > field.size)
    THEN 1
    ELSE LET mask  == MaskOf(number)
             index == number \div 30
         IN IF mask # 0
            THEN IF InData(field, index) THEN BitAnd(field.data[index + 1], mask) ELSE 0
            ELSE 1

\* ------------------------------------------------- constructor and the sieve

NoResult == [op |-> "none", args |-> <<>>, out |-> "none", val |-> <<>>]

\* constructor, lines 39-41: the fields before #generateLowSet is called.
Init ==
    /\ max_range \in Ranges
    /\ low_set = <<>>
    /\ low_set_last = 0
    /\ low_set_ready = FALSE
    /\ range = 0
    /\ range_sqrt = 0
    /\ candidate = 0
    /\ oddMultiple = 0
    /\ sieveField = NoBitArray
    /\ pc = "constructor"
    /\ builds = 0
    /\ result = NoResult
    /\ bits = NoBitArray
    /\ setLog = {}

\* The pre-added primes with the pushes of 3 and 5 exchanged.
PreAddExchanged(set, bound) ==
    LET s2 == IF bound >= 2 THEN Append(set, 2) ELSE set
        s5 == IF bound >= 5 THEN Append(s2, 5) ELSE s2
    IN IF bound >= 3 THEN Append(s5, 3) ELSE s5

\* #generateLowSet, lines 55-57: 2, 3 and 5 are added outside the wheel.
PreAdd(set, bound) ==
    LET s2 == IF bound >= 2 THEN Append(set, 2) ELSE set
        s3 == IF bound >= 3 THEN Append(s2, 3) ELSE s2
    IN IF bound >= 5 THEN Append(s3, 5) ELSE s3

\* The build with a BitArray of the size of the first loop's limit.
GenerateStartShortField ==
    /\ pc = "constructor"
    /\ builds' = builds + 1
    /\ range' = FloorSqrt(max_range)
    /\ low_set' = PreAdd(low_set, range')
    /\ IF BitArrayThrows(range')
       THEN /\ pc' = "rejected"
            /\ UNCHANGED <<range_sqrt, candidate, oddMultiple, sieveField>>
       ELSE /\ sieveField' = BitArrayNew(FloorSqrt(range'))
            /\ range_sqrt' = FloorSqrt(range')
            /\ candidate' = 7
            /\ pc' = "loop1"
            /\ UNCHANGED oddMultiple
    /\ UNCHANGED <<bitVars, max_range, low_set_last, low_set_ready, result>>

\* constructor line 42 and #generateLowSet lines 51-62: the call, the pre-added
\* primes, the BitArray (whose constructor throws for a range below 1, which
\* rejects the promise and ends the build) and the loop variables.
GenerateStart ==
    /\ pc = "constructor"
    /\ builds' = builds + 1
    /\ range' = FloorSqrt(max_range)
    /\ low_set' = PreAdd(low_set, range')
    /\ IF BitArrayThrows(range')
       THEN /\ pc' = "rejected"
            /\ UNCHANGED <<range_sqrt, candidate, oddMultiple, sieveField>>
       ELSE /\ sieveField' = BitArrayNew(range')
            /\ range_sqrt' = FloorSqrt(range')
            /\ candidate' = 7
            /\ pc' = "loop1"
            /\ UNCHANGED oddMultiple
    /\ UNCHANGED <<bitVars, max_range, low_set_last, low_set_ready, result>>

\* The first loop's condition with < for <=: a candidate equal to the
\* square root is left to the second loop, and its square is never marked.
InFirstLoopStrict(c, limit) == c < limit

\* Line 63, the first loop's condition: candidate <= range_sqrt.
InFirstLoop(c, limit) == c <= limit

\* The marking loop starting at the candidate itself.
FirstMultipleSelf(c) == c

\* Line 68, the first multiple marked: candidate + stepMultiple.
FirstMultiple(c) == c + c * 2

\* The marking loop without its increment.
NextMultipleStuck(multiple, c) == multiple

\* Line 68, the next multiple: oddMultiple += stepMultiple.
NextMultiple(multiple, c) == multiple + c * 2

\* Lines 63-67: one test of the first loop's condition and, if it holds, one
\* pass of its body up to the start of the marking loop.
Loop1Step ==
    /\ pc = "loop1"
    /\ IF InFirstLoop(candidate, range_sqrt)
       THEN IF BitArrayGet(sieveField, candidate, TRUE) = 0
            THEN /\ low_set' = Append(low_set, candidate)
                 /\ oddMultiple' = FirstMultiple(candidate)
                 /\ pc' = "mark"
                 /\ UNCHANGED candidate
            ELSE /\ candidate' = candidate + 2
                 /\ UNCHANGED <<low_set, oddMultiple, pc>>
       ELSE /\ pc' = "loop2"
            /\ UNCHANGED <<low_set, oddMultiple, candidate>>
    /\ UNCHANGED <<bitVars, max_range, low_set_last, low_set_ready, range, range_sqrt,
                   sieveField, builds, result>>

\* Lines 68-69: one test of the marking loop's condition and one pass of its
\* body; when the loop ends, the first loop's candidate += 2.
MarkStep ==
    /\ pc = "mark"
    /\ IF oddMultiple <= range
       THEN /\ sieveField' = BitArraySet(sieveField, oddMultiple, TRUE)
            /\ oddMultiple' = NextMultiple(oddMultiple, candidate)
            /\ UNCHANGED <<candidate, pc>>
       ELSE /\ candidate' = candidate + 2
            /\ pc' = "loop1"
            /\ UNCHANGED <<sieveField, oddMultiple>>
    /\ UNCHANGED <<bitVars, max_range, low_set, low_set_last, low_set_ready, range,
                   range_sqrt, builds, result>>

\* Lines 72-74: one test of the second loop's condition and one pass of its body.
Loop2Step ==
    /\ pc = "loop2"
    /\ IF candidate <= range
       THEN /\ low_set' = IF BitArrayGet(sieveField, candidate, TRUE) = 0
                          THEN Append(low_set, candidate)
                          ELSE low_set
            /\ candidate' = candidate + 2
            /\ UNCHANGED pc
       ELSE /\ pc' = "save"
            /\ UNCHANGED <<low_set, candidate>>
    /\ UNCHANGED <<bitVars, max_range, low_set_last, low_set_ready, range, range_sqrt,
                   oddMultiple, sieveField, builds, result>>

\* this.#low_set[this.#low_set.length]: one past the end, undefined.
LastOfPastEnd(set) == Undefined

\* this.#low_set[this.#low_set.length - 1]: undefined for an empty array.
LastOf(set) == IF Len(set) = 0 THEN Undefined ELSE set[Len(set)]

\* Line 76.
SaveLast ==
    /\ pc = "save"
    /\ low_set_last' = LastOf(low_set)
    /\ pc' = "flag"
    /\ UNCHANGED <<bitVars, max_range, low_set, low_set_ready, buildVars, builds, result>>

\* Line 78.
SetReady ==
    /\ pc = "flag"
    /\ low_set_ready' = TRUE
    /\ pc' = "report"
    /\ UNCHANGED <<bitVars, max_range, low_set, low_set_last, buildVars, builds, result>>

\* Lines 80-83 and 43: #generateLowSet returns its promise (fulfilled after the
\* report to the console, or rejected), and only then does the constructor
\* return the object to its caller.
ConstructorReturn ==
    /\ pc \in {"report", "rejected"}
    /\ pc' = "returned"
    /\ UNCHANGED <<bitVars, max_range, cacheVars, buildVars, builds, result>>

Build ==
    \/ GenerateStart
    \/ Loop1Step
    \/ MarkStep
    \/ Loop2Step
    \/ SaveLast
    \/ SetReady
    \/ ConstructorReturn

\* ------------------------------------------------------- public predicates

\* What a call did: it returned a value or it threw.
Returned(kind, value) == [out |-> kind, val |-> value]

Threw(error) == [out |-> error, val |-> <<>>]

ReturnedBool(b) == Returned(IF b THEN "true" ELSE "false", <<>>)

\* The keys for (key in array) enumerates: the indices, as strings.
ForInKeys(array) == 0..(Len(array) - 1)

\* typeof of a key that for-in yields.
TypeofKey == "string"

\* #prepareParameters, lines 328-333: the check runs on the keys of the array;
\* does it throw?
prepareParametersThrows(parameters) ==
    \E parameter \in ForInKeys(parameters) : TypeofKey # "number"

\* #prepareParameters, lines 335-339: the two parameters in ascending order.
prepareParameters(parameters) ==
    IF Len(parameters) >= 2 /\ parameters[1] > parameters[2]
    THEN <<parameters[2], parameters[1]>> \o SubSeq(parameters, 3, Len(parameters))
    ELSE parameters

\* for (candidate in array) with candidate declared nowhere: the first
\* iteration's assignment throws a ReferenceError; no iteration, no throw.
ForInUndeclaredThrows(array) == ForInKeys(array) # {}

RECURSIVE TrialDivisionLoop(_, _, _)
\* isPrimeTrialDivision, lines 109-113: the search for a third divisor.
TrialDivisionLoop(number, divisor, number_sqrt) ==
    IF divisor <= number_sqrt
    THEN IF number % divisor = 0
         THEN FALSE
         ELSE TrialDivisionLoop(number, divisor + 2, number_sqrt)
    ELSE TRUE

\* isPrimeTrialDivision, lines 105-113, once the parameter is prepared.
TrialDivisionBody(number) ==
    IF number < 2 \/ (number # 2 /\ JsMod(number, 2) = 0)
    THEN FALSE
    ELSE TrialDivisionLoop(number, 3, FloorSqrt(number))

\* isPrimeTrialDivision(number).
isPrimeTrialDivision(number) ==
    IF prepareParametersThrows(<<number>>)
    THEN Threw("InvalidArgument")
    ELSE ReturnedBool(TrialDivisionBody(prepareParameters(<<number>>)[1]))

RECURSIVE MarkMultiples(_, _, _, _)
\* isPrimeSieveEratosthenes, lines 136-137; field[i + 1] is sieveField[i].
MarkMultiples(field, next, multiple, number) ==
    IF multiple <= number
    THEN MarkMultiples([field EXCEPT ![multiple + 1] = FALSE], next,
                       multiple + next, number)
    ELSE field

RECURSIVE EratosthenesLoop(_, _, _, _)
\* isPrimeSieveEratosthenes, lines 132-137.
EratosthenesLoop(field, next, number_sqrt, number) ==
    IF next <= number_sqrt
    THEN EratosthenesLoop(
             IF field[next + 1]
             THEN MarkMultiples(field, next, next * 2, number)
             ELSE field,
             next + 1, number_sqrt, number)
    ELSE field

\* isPrimeSieveEratosthenes, lines 125-139, once the parameter is prepared.
SieveEratosthenesBody(number) ==
    IF number < 2
    THEN FALSE
    ELSE LET filled == [i \in 1..(number + 1) |-> i > 2]
         IN EratosthenesLoop(filled, 2, FloorSqrt(number), number)[number + 1]

\* isPrimeSieveEratosthenes(number).
isPrimeSieveEratosthenes(number) ==
    IF prepareParametersThrows(<<number>>)
    THEN Threw("InvalidArgument")
    ELSE ReturnedBool(SieveEratosthenesBody(prepareParameters(<<number>>)[1]))

\* isPrimeBucketSieve, lines 151-168, once the parameter is prepared.  Both
\* branches loop with for (candidate in this.#low_set).
BucketSieveBody(number, set, last, ready) ==
    IF ~ready
    THEN Threw("NotReady")
    ELSE IF number < 2 \/ (number # 2 /\ JsMod(number, 2) = 0)
    THEN ReturnedBool(FALSE)
    ELSE IF ForInUndeclaredThrows(set)
    THEN Threw("ReferenceError")
    ELSE ReturnedBool(~JsLessEq(number, last))

\* isPrimeBucketSieve(number).
isPrimeBucketSieve(number, set, last, ready) ==
    IF prepareParametersThrows(<<number>>)
    THEN Threw("InvalidArgument")
    ELSE BucketSieveBody(prepareParameters(<<number>>)[1], set, last, ready)

\* isPrime(number), lines 92-94.
isPrime(number, set, last, ready) == isPrimeBucketSieve(number, set, last, ready)

\* isPrimeFast with a range check after the ready check: a number above the
\* square of the greatest cached prime is refused.
isPrimeFastRangeChecked(number, set, last, ready) ==
    IF ~ready
    THEN Threw("NotReady")
    ELSE IF last # Undefined /\ number > last * last
    THEN Threw("OutOfRange")
    ELSE IF number < 2 \/ JsMod(number, 2) = 0
    THEN ReturnedBool(FALSE)
    ELSE IF ForInUndeclaredThrows(set)
    THEN Threw("ReferenceError")
    ELSE ReturnedBool(~JsLessEq(number, last))

\* isPrimeFast(number) of src/unnamed/part_000, lines 190-220: its own type and
\* safe-integer checks pass for every integer of the model; the loops are
\* for (test in this.#low_set) with test declared nowhere.
isPrimeFast(number, set, last, ready) ==
    IF ~ready
    THEN Threw("NotReady")
    ELSE IF number < 2 \/ JsMod(number, 2) = 0
    THEN ReturnedBool(FALSE)
    ELSE IF ForInUndeclaredThrows(set)
    THEN Threw("ReferenceError")
    ELSE ReturnedBool(~JsLessEq(number, last))

\* ------------------------------------------------------- range operations

\* A name that is no binding in scope (countPrimesBucketSieve and
\* getPrimesBucketSieve called without this.): a ReferenceError.
countPrimes(range_start, range_end) == Threw("ReferenceError")

RECURSIVE CountTrialDivisionLoop(_, _, _)
\* countPrimesTrialDivision, lines 194-198: an exception of
\* isPrimeTrialDivision ends the count.
CountTrialDivisionLoop(odd, range_end, counter) ==
    IF odd <= range_end
    THEN LET r == isPrimeTrialDivision(odd)
         IN IF r.out = "true"
            THEN CountTrialDivisionLoop(odd + 2, range_end, counter + 1)
            ELSE IF r.out = "false"
            THEN CountTrialDivisionLoop(odd + 2, range_end, counter)
            ELSE r
    ELSE Returned("number", <<counter>>)

\* countPrimesTrialDivision, lines 185-198.  range_start++ is a post-increment:
\* the loop starts at range_start whether it is odd or even.
countPrimesTrialDivision(range_start, range_end) ==
    IF prepareParametersThrows(<<range_start, range_end>>)
    THEN Threw("InvalidArgument")
    ELSE LET p == prepareParameters(<<range_start, range_end>>)
             counter == IF p[1] <= 2 /\ p[2] >= 2 THEN 1 ELSE 0
         IN CountTrialDivisionLoop(p[1], p[2], counter)

\* countPrimesSieveEratosthenes (lines 208-222) and countPrimesBucketSieve
\* (lines 224-235): the parameters are prepared and the counter is returned.
countPrimesUnfinished(range_start, range_end) ==
    IF prepareParametersThrows(<<range_start, range_end>>)
    THEN Threw("InvalidArgument")
    ELSE Returned("number", <<0>>)

\* getPrimes, lines 245-247.
getPrimes(range_start, range_end) == Threw("ReferenceError")

\* getPrimesTrialDivision (lines 255-266) and getPrimesSieveEratosthenes
\* (lines 274-284): the parameters are prepared and the empty list is returned.
getPrimesUnfinished(range_start, range_end) ==
    IF prepareParametersThrows(<<range_start, range_end>>)
    THEN Threw("InvalidArgument")
    ELSE Returned("list", <<>>)

\* getPrimesBucketSieve, lines 286-317: its own checks pass for the integers
\* of the model.
getPrimesBucketSieve(range_start, range_end, ready) ==
    IF ~ready THEN Threw("NotReady") ELSE Returned("list", <<>>)

\* ------------------------------------------------------------ public calls

\* The outcome of the single-argument predicate op on number.
PredicateOutcome(op, number, set, last, ready) ==
    CASE op = "isPrime" -> isPrime(number, set, last, ready)
      [] op = "isPrimeTrialDivision" -> isPrimeTrialDivision(number)
      [] op = "isPrimeSieveEratosthenes" -> isPrimeSieveEratosthenes(number)
      [] op = "isPrimeBucketSieve" -> isPrimeBucketSieve(number, set, last, ready)
      [] op = "isPrimeFast" -> isPrimeFast(number, set, last, ready)

PredicateOps ==
    {"isPrime", "isPrimeTrialDivision", "isPrimeSieveEratosthenes",
     "isPrimeBucketSieve", "isPrimeFast"}

\* The predicates that read the low set.
AcceleratedOps == {"isPrime", "isPrimeBucketSieve", "isPrimeFast"}

\* The outcome of the range operation op on (range_start, range_end).
RangeOutcome(op, range_start, range_end, ready) ==
    CASE op = "countPrimes" -> countPrimes(range_start, range_end)
      [] op = "countPrimesTrialDivision" ->
             countPrimesTrialDivision(range_start, range_end)
      [] op \in {"countPrimesSieveEratosthenes", "countPrimesBucketSieve"} ->
             countPrimesUnfinished(range_start, range_end)
      [] op = "getPrimes" -> getPrimes(range_start, range_end)
      [] op \in {"getPrimesTrialDivision", "getPrimesSieveEratosthenes"} ->
             getPrimesUnfinished(range_start, range_end)
      [] op = "getPrimesBucketSieve" ->
             getPrimesBucketSieve(range_start, range_end, ready)

RangeOps ==
    {"countPrimes", "countPrimesTrialDivision", "countPrimesSieveEratosthenes",
     "countPrimesBucketSieve", "getPrimes", "getPrimesTrialDivision",
     "getPrimesSieveEratosthenes", "getPrimesBucketSieve"}

\* The object exists for its caller once the constructor has returned.
Constructed == pc = "returned"

\* A public call can start: the object is constructed and no call is running
\* (one thread, and no public method yields).
CanCall == Constructed /\ result = NoResult

\* A call of a predicate on the constructed object: no field changes.
CallPredicate ==
    /\ CanCall
    /\ \E op \in PredicateOps, number \in Numbers :
         LET o == PredicateOutcome(op, number, low_set, low_set_last, low_set_ready)
         IN result' = [op |-> op, args |-> <<number>>, out |-> o.out, val |-> o.val]
    /\ UNCHANGED <<bitVars, max_range, cacheVars, buildVars, pc, builds>>

\* A range operation that begins with #resetLowSet() (part_000, lines 69-73)
\* where the sibling revision's getPrimes begins with #resetList().
CallRangeResetting ==
    /\ CanCall
    /\ \E op \in RangeOps, range_start \in Endpoints, range_end \in Endpoints :
         LET o == RangeOutcome(op, range_start, range_end, FALSE)
         IN result' = [op |-> op, args |-> <<range_start, range_end>>,
                       out |-> o.out, val |-> o.val]
    /\ low_set' = <<>>
    /\ low_set_last' = 0
    /\ low_set_ready' = FALSE
    /\ UNCHANGED <<bitVars, max_range, buildVars, pc, builds>>

\* A call of a range operation on the constructed object: no field changes.
CallRange ==
    /\ CanCall
    /\ \E op \in RangeOps, range_start \in Endpoints, range_end \in Endpoints :
         LET o == RangeOutcome(op, range_start, range_end, low_set_ready)
         IN result' = [op |-> op, args |-> <<range_start, range_end>>,
                       out |-> o.out, val |-> o.val]
    /\ UNCHANGED <<bitVars, max_range, cacheVars, buildVars, pc, builds>>

\* The caller takes the outcome of the call.
TakeResult ==
    /\ result # NoResult
    /\ result' = NoResult
    /\ UNCHANGED <<bitVars, max_range, cacheVars, buildVars, pc, builds>>

Next ==
    \/ Build
    \/ CallPredicate
    \/ CallRange
    \/ TakeResult

Spec == Init /\ [][Next]_vars

\* -------------------------------------------------- a BitArray on its own

\* The numbers set and get are called with on a BitArray of this size.
BitNumbers(size) == (0 - MaxNegative)..(size + MaxBeyond)

\* new primes_web.BitArray(size): the constructor throws for a size below 1
\* and no object exists then.
BitConstruct ==
    /\ bits = NoBitArray
    /\ \E size \in 0..MaxSize :
         bits' = IF BitArrayThrows(size) THEN bits ELSE BitArrayNew(size)
    /\ UNCHANGED <<setLog, programVars>>

\* bits.set(number, skip_checks).
BitSetCall ==
    /\ bits # NoBitArray
    /\ \E number \in BitNumbers(bits.size), skip_checks \in BOOLEAN :
         /\ Cardinality(setLog \cup {number}) <= MaxSets
         /\ bits' = BitArraySet(bits, number, skip_checks)
         /\ setLog' = setLog \cup {number}
    /\ UNCHANGED programVars

BitNext ==
    \/ BitConstruct
    \/ BitSetCall

BitInit == Init /\ max_range = 0

BitSpec == BitInit /\ [][BitNext]_vars

\* The build is synchronous code of one thread: the engine runs it to its end.
FairSpec == Spec /\ WF_vars(Build)

\* ------------------------------------------------------------ number theory

\* n is a prime number.
IsPrimeNumber(n) == n >= 2 /\ \A d \in 2..(n - 1) : d * d > n \/ n % d # 0

RECURSIVE PrimesUpTo(_)
\* The primes <= n, ascending.
PrimesUpTo(n) ==
    IF n < 2
    THEN <<>>
    ELSE IF IsPrimeNumber(n) THEN Append(PrimesUpTo(n - 1), n) ELSE PrimesUpTo(n - 1)

Elements(set) == {set[i] : i \in 1..Len(set)}

StrictlyAscending(set) == \A i \in 1..(Len(set) - 1) : set[i] < set[i + 1]

IsBool(outcome) == outcome.out \in {"true", "false"}

BoolOut(b) == IF b THEN "true" ELSE "false"

\* ------------------------------------------------------------------ claims

\* C1 (as claimed): once the low set is ready, for every n in 0..MaxNumber
\* isPrimeTrialDivision(n), isPrimeSieveEratosthenes(n) and
\* isPrimeBucketSieve(n) all return the same boolean.
C1_ThreePredicatesAgree ==
    (CanCall /\ low_set_ready) =>
        \A n \in 0..MaxNumber :
            LET t == isPrimeTrialDivision(n)
                e == isPrimeSieveEratosthenes(n)
                b == isPrimeBucketSieve(n, low_set, low_set_last, low_set_ready)
            IN IsBool(t) /\ t.out = e.out /\ e.out = b.out

\* C2 (as claimed): once the low set is ready, a call isPrime(n) returns true
\* exactly when n is a prime number, for every n of the model up to MAX_RANGE
\* (false for n <= 1 and for even n other than 2).
C2_IsPrimeDecidesPrimality ==
    (low_set_ready /\ result.op = "isPrime" /\ result.args[1] <= max_range) =>
        result.out = BoolOut(IsPrimeNumber(result.args[1]))

\* C3: when both loops of the sieve have ended, for every bound >= 1, the low
\* set is exactly the ascending sequence of the primes <= bound; bound 30
\* gives 2,3,5,7,11,13,17,19,23,29 and bound 49 includes 47 and excludes 48, 49.
C3_SieveProducesPrimes ==
    (pc = "save" /\ range >= 1) =>
        /\ low_set = PrimesUpTo(range)
        /\ range = 30 => low_set = <<2, 3, 5, 7, 11, 13, 17, 19, 23, 29>>
        /\ range = 49 =>
              47 \in Elements(low_set) /\ Elements(low_set) \cap {48, 49} = {}

\* C3 witness: the sieve has ended for the bound 49, a perfect square, with 47
\* in the low set.
C3_Witness == pc = "save" /\ range = 49 /\ 47 \in Elements(low_set)

\* C4: in every state where ready is true, the low set is strictly ascending
\* (hence without duplicates) and, when the bound is at least 5, begins 2, 3, 5.
C4_AscendingFrom235 ==
    low_set_ready =>
        /\ StrictlyAscending(low_set)
        /\ range >= 5 => SubSeq(low_set, 1, 3) = <<2, 3, 5>>

\* C4 witness: ready, with a bound of at least 5 and primes beyond 5.
C4_Witness == low_set_ready /\ range >= 5 /\ Len(low_set) > 3

\* C5 (as claimed): once ready, low_set_last squared is >= MAX_RANGE.
C5_LastSquaredAtLeastRange ==
    (low_set_ready /\ low_set # <<>>) =>
        low_set_last * low_set_last >= max_range

\* C5 (amended): once ready with a bound of at least 2, low_set_last squared
\* is <= MAX_RANGE, and low_set_last is the greatest prime of which this is
\* true: the square of every greater prime exceeds MAX_RANGE.
C5_LastIsGreatestPrimeBelowRoot ==
    (low_set_ready /\ range >= 2) =>
        /\ low_set_last # Undefined
        /\ low_set_last * low_set_last <= max_range
        /\ \A p \in (low_set_last + 1)..(range + 1) :
              IsPrimeNumber(p) => p * p > max_range

\* C5 witness: ready, and the square of low_set_last is below MAX_RANGE.
C5_Witness ==
    /\ low_set_ready
    /\ range >= 2
    /\ low_set_last * low_set_last < max_range

C7_ReadyIsStable ==
    [][low_set_ready =>
         /\ low_set_ready'
         /\ low_set' = low_set
         /\ low_set_last' = low_set_last
         /\ (result'.op \in AcceleratedOps \cup {"getPrimesBucketSieve"}) =>
               result'.out # "NotReady"]_vars

\* C7 witness: an accelerated call has been made and answered after completion.
C7_Witness ==
    low_set_ready /\ result.op = "isPrimeFast" /\ result.out = "false"

\* C8: in every state in which a public call can start, either ready is false,
\* or the low set is the complete sieve result (the primes up to the bound)
\* and low_set_last is its greatest element.
C8_CacheConsistentForCallers ==
    CanCall =>
        \/ ~low_set_ready
        \/ /\ low_set = PrimesUpTo(range)
           /\ low_set # <<>> =>
                 /\ low_set_last \in Elements(low_set)
                 /\ \A e \in Elements(low_set) : e <= low_set_last

\* C8 witness: a call can start, ready is true and the low set holds primes
\* found by both loops.
C8_Witness == CanCall /\ low_set_ready /\ range_sqrt >= 7 /\ low_set_last > 7

\* C9 (as claimed): the constructor returns while ready is still false.
C9_ConstructorReturnsBeforeReady ==
    [][(pc # "returned" /\ pc' = "returned") => ~low_set_ready']_vars

\* C10: the build is started once and never again, and for every MAX_RANGE
\* >= 1 (a bound of at least 1) it runs to its end: ready becomes true.
C10_BuildCompletes ==
    /\ [](builds <= 1)
    /\ (max_range >= 1) ~> low_set_ready

\* C10 witness: ready after one build in which both loops had candidates.
C10_Witness == low_set_ready /\ builds = 1 /\ range_sqrt >= 7

\* C11 (as claimed): in every state, ready or not, a call of
\* isPrimeTrialDivision or isPrimeSieveEratosthenes returns a boolean and
\* raises no error.
C11_ReferencePredicatesAlwaysAnswer ==
    (result.op \in {"isPrimeTrialDivision", "isPrimeSieveEratosthenes"}) =>
        result.out \in {"true", "false"}

\* A call of an accelerated predicate, made when ready, with an argument above
\* the square of the greatest cached prime.
AboveLastSquared ==
    /\ low_set_ready
    /\ result.op \in AcceleratedOps
    /\ low_set_last # Undefined
    /\ result.args[1] > low_set_last * low_set_last

\* C12 (as claimed): once ready, an accelerated call with n > low_set_last^2
\* fails with OutOfRange.
C12_OutOfRangeAboveLastSquared == AboveLastSquared => result.out = "OutOfRange"

\* C12 (amended): once ready, no accelerated call fails with OutOfRange, the
\* calls with n > low_set_last^2 included: there is no range check, and for an
\* even n above low_set_last^2 isPrimeFast returns false.
C12_NoRangeCheck ==
    /\ (low_set_ready /\ result.op \in AcceleratedOps) => result.out # "OutOfRange"
    /\ (AboveLastSquared /\ result.op = "isPrimeFast" /\ result.args[1] % 2 = 0) =>
          result.out = "false"

\* C12 witness: isPrimeFast has answered for an even n above low_set_last^2.
C12_Witness ==
    AboveLastSquared /\ result.op = "isPrimeFast" /\ result.args[1] = 100

\* n is coprime to 2, 3 and 5.
Coprime30(n) == n % 2 # 0 /\ n % 3 # 0 /\ n % 5 # 0

\* C13: after any sequence of set calls, for every n in 7..size coprime to 30
\* get(n) is non-zero if set(n) was called and 0 if it never was; for every
\* out-of-domain n (even, below 7 or above size) get(n) is non-zero.
C13_RoundTrip ==
    bits # NoBitArray =>
        \A n \in BitNumbers(bits.size) :
            LET g == BitArrayGet(bits, n, FALSE)
            IN /\ (n >= 7 /\ n <= bits.size /\ Coprime30(n)) =>
                    (g # 0 <=> n \in setLog)
               /\ (n % 2 = 0 \/ n < 7 \/ n > bits.size) => g # 0

\* C13 witness: 31, in the second byte, was set and reads non-zero; 7 was not set.
C13_Witness ==
    /\ bits # NoBitArray
    /\ bits.size >= 31
    /\ 31 \in setLog
    /\ 7 \notin setLog
    /\ BitArrayGet(bits, 31, FALSE) # 0

\* C14: set is idempotent: in every state of a BitArray and for every n, the
\* state after set(n); set(n) is the state after one set(n) (checked or fast),
\* so that every get answers the same.
C14_SetIdempotent ==
    bits # NoBitArray =>
        \A n \in BitNumbers(bits.size), skip_checks \in BOOLEAN :
            LET once  == BitArraySet(bits, n, skip_checks)
                twice == BitArraySet(once, n, skip_checks)
            IN twice = once

\* C14 witness: a BitArray in which set has marked two numbers of one byte.
C14_Witness ==
    /\ bits # NoBitArray
    /\ setLog = {7, 11}
    /\ bits.data[1] = 6

\* A BitArray as its constructor leaves it: set was not called yet.
FreshBitArray == bits # NoBitArray /\ setLog = {}

\* The storage holds only zero bytes.
AllZero(field) == \A i \in 1..Len(field.data) : field.data[i] = 0

\* C15 (as claimed): a BitArray of a positive size is constructed with
\* ceil(size / 30) + 1 bytes, all zero.
C15_CeilPlusOneBytes ==
    FreshBitArray =>
        /\ \E q \in 0..bits.size :
             /\ 30 * q >= bits.size
             /\ 30 * (q - 1) < bits.size
             /\ Len(bits.data) = q + 1
        /\ AllZero(bits)

\* C15 (amended): a BitArray of a positive size is constructed with
\* floor(size / 30) + 1 bytes, all zero.
C15_FloorPlusOneBytes ==
    FreshBitArray =>
        /\ \E q \in 0..bits.size :
             /\ 30 * q <= bits.size
             /\ 30 * (q + 1) > bits.size
             /\ Len(bits.data) = q + 1
        /\ AllZero(bits)

\* C15 witness: a fresh BitArray of size 31, where floor and ceiling differ.
C15_Witness == FreshBitArray /\ bits.size = 31 /\ Len(bits.data) = 2

\* C16 (as claimed): for every state of a BitArray and every n from 0 to
\* beyond its size, get(n, true) returns what get(n) returns and set(n, true)
\* leaves the state that set(n) leaves.
C16_FastPathIdentical ==
    bits # NoBitArray =>
        \A n \in 0..(bits.size + MaxBeyond) :
            /\ BitArrayGet(bits, n, TRUE) = BitArrayGet(bits, n, FALSE)
            /\ BitArraySet(bits, n, TRUE) = BitArraySet(bits, n, FALSE)

\* C16 (amended): get(n, true) returns what get(n) returns for every n in
\* 7..size, and set(n, true) leaves the state that set(n) leaves for every n
\* in 0..size.
C16_FastPathIdenticalInDomain ==
    bits # NoBitArray =>
        /\ \A n \in 7..bits.size :
             BitArrayGet(bits, n, TRUE) = BitArrayGet(bits, n, FALSE)
        /\ \A n \in 0..bits.size :
             BitArraySet(bits, n, TRUE) = BitArraySet(bits, n, FALSE)

\* C16 witness: both paths of get read the mark of 31 in a BitArray of size 31.
C16_Witness ==
    /\ bits # NoBitArray
    /\ bits.size = 31
    /\ 31 \in setLog
    /\ BitArrayGet(bits, 31, TRUE) = 1
    /\ BitArrayGet(bits, 29, TRUE) = 0

\* The number of primes p with a <= p <= b.
PrimeCount(a, b) == Cardinality({p \in a..b : IsPrimeNumber(p)})

\* C17 (as claimed): countPrimesTrialDivision(a, b) returns the number of
\* primes between min(a, b) and max(a, b), the endpoints in either order.
C17_CountIsPrimeCount ==
    (result.op = "countPrimesTrialDivision") =>
        LET a == result.args[1]
            b == result.args[2]
        IN /\ result.out = "number"
           /\ result.val = <<PrimeCount(IF a <= b THEN a ELSE b,
                                        IF a <= b THEN b ELSE a)>>

\* C18 (as claimed): once ready, for every odd n >= 3 an accelerated call
\* returns true iff n is an element of the low set when n <= low_set_last, and
\* iff no element of the low set divides n when n > low_set_last.
C18_TwoBranchRule ==
    (low_set_ready /\ result.op \in AcceleratedOps
       /\ result.args[1] >= 3 /\ result.args[1] % 2 = 1) =>
        LET n == result.args[1]
        IN result.out =
             BoolOut(IF low_set_last # Undefined /\ n <= low_set_last
                     THEN n \in Elements(low_set)
                     ELSE \A e \in Elements(low_set) : n % e # 0)

\* C19: frame of the checked set(n), in every state of a BitArray and for every
\* n: size and the number of bytes never change (the mask table is the constant
\* MaskTable); the storage is unchanged when n is even, negative, above size or
\* not coprime to 30; otherwise every byte but floor(n / 30) is unchanged and
\* that byte is the old one with at most the bit MaskOf(n) added, and get(m)
\* answers as before for every m # n. (When the storage is unchanged every get
\* is unchanged, get being a function of the storage.)
C19_SetFrame ==
    bits # NoBitArray =>
        \A n \in BitNumbers(bits.size) :
            LET after == BitArraySet(bits, n, FALSE)
                index == n \div 30
            IN /\ after.size = bits.size
               /\ Len(after.data) = Len(bits.data)
               /\ (n % 2 = 0 \/ n < 0 \/ n > bits.size \/ ~Coprime30(n)) =>
                      after = bits
               /\ after # bits =>
                    /\ \A i \in 1..Len(bits.data) :
                           i # index + 1 => after.data[i] = bits.data[i]
                    /\ after.data[index + 1] = bits.data[index + 1] + MaskOf(n)
                    /\ BitAnd(bits.data[index + 1], MaskOf(n)) = 0
                    /\ \A m \in BitNumbers(bits.size) :
                           m # n => BitArrayGet(after, m, FALSE)
                                      = BitArrayGet(bits, m, FALSE)

\* C19 witness: after set(31) and a checked set(37) on a BitArray of size 31,
\* whose second byte also holds the bit of 37, only the bit of 31 is set.
C19_Witness ==
    /\ bits # NoBitArray
    /\ bits.size = 31
    /\ setLog = {31, 37}
    /\ bits.data = <<0, 1>>

\* The bit of n is set in the storage of the field.
Marked(field, n) == Coprime30(n) /\ BitArrayGet(field, n, TRUE) # 0

\* The numbers that have a bit in the storage of the field.
Stored(field) == 1..(30 * Len(field.data) - 1)

\* n is an odd multiple k * p, k >= 3, of an element p of the set.
OddMultipleOf(n, set) ==
    \E p \in Elements(set) :
        n % p = 0 /\ (n \div p) >= 3 /\ (n \div p) % 2 = 1

\* C20: at every step of both loops of the sieve, every number marked in the
\* bit array is an odd multiple k * p, k >= 3, of a prime p already in the low
\* set, no prime is marked, and every element of the low set is prime; once the
\* first loop has ended, every composite <= range coprime to 30 is marked.
C20_SieveInvariant ==
    /\ pc \in {"loop1", "mark", "loop2"} =>
          /\ \A n \in Stored(sieveField) :
                 Marked(sieveField, n) =>
                     /\ OddMultipleOf(n, low_set)
                     /\ ~IsPrimeNumber(n)
                     /\ n <= range
          /\ \A e \in Elements(low_set) : IsPrimeNumber(e)
    /\ pc \in {"loop2", "save"} =>
          \A n \in 2..range :
              (Coprime30(n) /\ ~IsPrimeNumber(n)) => Marked(sieveField, n)

\* C20 witness: the first loop has ended for the bound 121: 49 = 7 * 7,
\* 91 = 13 * 7 and 121 = 11 * 11 are marked, and the prime 113 is not.
C20_Witness ==
    /\ pc = "loop2"
    /\ range = 121
    /\ Marked(sieveField, 49)
    /\ Marked(sieveField, 91)
    /\ Marked(sieveField, 121)
    /\ ~Marked(sieveField, 113)

\* The arguments of the fast-path calls the build is about to make: get at
\* line 63 (first loop), set at line 69 (marking loop), get at line 73.
FastCallArguments ==
    IF pc = "loop1" /\ InFirstLoop(candidate, range_sqrt) THEN {candidate}
    ELSE IF pc = "mark" /\ oddMultiple <= range THEN {oddMultiple}
    ELSE IF pc = "loop2" /\ candidate <= range THEN {candidate}
    ELSE {}

\* C21: during the build every fast-path call to set or get has an odd argument
\* n with 7 <= n <= range, whose byte floor(n / 30) lies within the storage of
\* floor(range / 30) + 1 bytes, and the checked call would do and answer the
\* same: the sieve never leaves the bit array and never needs the validation.
C21_FastCallsInRange ==
    \A n \in FastCallArguments :
        /\ n % 2 = 1
        /\ 7 <= n /\ n <= range
        /\ sieveField.size = range
        /\ Len(sieveField.data) = (range \div 30) + 1
        /\ InData(sieveField, n \div 30)
        /\ BitArrayGet(sieveField, n, TRUE) = BitArrayGet(sieveField, n, FALSE)
        /\ BitArraySet(sieveField, n, TRUE) = BitArraySet(sieveField, n, FALSE)

\* C21 witness: the marking loop is about to set 121 = 11 * 11, the bound
\* itself, in the last of the five bytes.
C21_Witness ==
    /\ pc = "mark"
    /\ range = 121
    /\ candidate = 11
    /\ oddMultiple = 121
    /\ Len(sieveField.data) = 5

\* The other revision of the build: #populateLowSet, whose first loop is
\* limited by the unfloored Math.sqrt(range).

\* #populateLowSet lines 88-93: the pre-added primes.
PopulatePreAdd(range_floor) ==
    LET s2 == IF range_floor > 1 THEN <<2>> ELSE <<>>
        s3 == IF range_floor > 2 THEN Append(s2, 3) ELSE s2
    IN IF range_floor > 4 THEN Append(s3, 5) ELSE s3

\* The first loop's condition with < for <=.
WithinSqrtStrict(test, range_floor) == test * test < range_floor

\* Lines 96 and 99: test <= Math.sqrt(range) for integers test and range. The
\* range is below 2^27, where the rounded root of a non-square is never the
\* next integer and the root of a square is exact: test * test <= range.
WithinSqrt(test, range_floor) == test * test <= range_floor

RECURSIVE PopulateMark(_, _, _, _)
\* Lines 106-107: the marking loop.
PopulateMark(field, multiple, stepMultiple, range_floor) ==
    IF multiple <= range_floor
    THEN PopulateMark(BitArraySet(field, multiple, TRUE), multiple + stepMultiple,
                      stepMultiple, range_floor)
    ELSE field

RECURSIVE PopulateFirstLoop(_, _, _, _)
\* Lines 99-108: the first loop; its result is the low set, the field and test.
PopulateFirstLoop(set, field, test, range_floor) ==
    IF WithinSqrt(test, range_floor)
    THEN IF BitArrayGet(field, test, TRUE) = 0
         THEN PopulateFirstLoop(Append(set, test),
                                PopulateMark(field, test * 2 + test, test * 2,
                                             range_floor),
                                test + 2, range_floor)
         ELSE PopulateFirstLoop(set, field, test + 2, range_floor)
    ELSE [set |-> set, field |-> field, test |-> test]

RECURSIVE PopulateSecondLoop(_, _, _, _)
\* Lines 110-112: the second loop; its result is the low set.
PopulateSecondLoop(set, field, test, range_floor) ==
    IF test <= range_floor
    THEN PopulateSecondLoop(IF BitArrayGet(field, test, TRUE) = 0
                            THEN Append(set, test)
                            ELSE set,
                            field, test + 2, range_floor)
    ELSE set

\* #populateLowSet(range), lines 79-120, for a range whose floored root is at
\* least 1 (the BitArray constructor throws otherwise): the low set, its last
\* element and the ready flag it leaves.
populateLowSet(range_arg) ==
    LET range_floor == FloorSqrt(range_arg)
        first == PopulateFirstLoop(PopulatePreAdd(range_floor),
                                   BitArrayNew(range_floor), 7, range_floor)
        set   == PopulateSecondLoop(first.set, first.field, first.test,
                                    range_floor)
    IN [low_set       |-> set,
        low_set_last  |-> IF Len(set) = 0 THEN Undefined ELSE set[Len(set)],
        low_set_ready |-> TRUE]

\* C22: for every bound >= 1, perfect squares included, the build limited by
\* floor(sqrt(bound)) leaves the low set and the low_set_last that the build
\* limited by the unfloored sqrt(bound) leaves.
C22_RevisionsAgree ==
    (pc = "flag" /\ range >= 1) =>
        LET other == populateLowSet(max_range)
        IN /\ low_set = other.low_set
           /\ low_set_last = other.low_set_last

\* C22 witness: the build has saved the last prime for the bound 169 = 13 * 13,
\* a perfect square whose root is the last candidate of the first loop.
C22_Witness ==
    /\ pc = "flag"
    /\ range = 169
    /\ low_set_last = 167
    /\ populateLowSet(max_range).low_set_last = 167

====
